---- MODULE Spec2Model ----
(***************************************************************************)
(* State-machine model of the uniblox e-commerce backend: the in-memory    *)
(* store (models.py), the cart / order / discount services (services.py)   *)
(* and the checkout and admin-generation handlers (main_app.py).           *)
(*                                                                         *)
(* Python objects are modelled with their identity: every Item lives in    *)
(* `heap` and carts and orders hold references (indices) into it, so that  *)
(* the shallow list copy of OrderService.create_order is what the code     *)
(* does.  Money is an integer count of tenths of a currency unit and the   *)
(* prices offered are whole units, so the 10 percent discount is exact.    *)
(* Time is a day count; datetime.utcnow() is the variable `now`, and a     *)
(* handler that reads the clock several times may see it advance.          *)
(* Timestamps that no modelled decision reads (Cart.created_at/updated_at, *)
(* Order.created_at) are left out.  The checkout handler is modelled       *)
(* twice: as one action, for requests served one after another, and step   *)
(* by step on two threads, for requests whose steps interleave.            *)
(***************************************************************************)
EXTENDS Integers, Sequences, FiniteSets, TLC

VARIABLES
    now,             \* datetime.utcnow(), in days
    heap,            \* the Item objects allocated so far, by reference
    carts,           \* InMemoryStore.carts: user_id -> sequence of Item references
    orders,          \* InMemoryStore.orders, in insertion order (order_id = position)
    discount_codes,  \* InMemoryStore.discount_codes, in insertion order (code = position)
    order_counter,   \* InMemoryStore.order_counter
    response,        \* the message of the last answer (or raised error)
    checkoutMinted,  \* number of codes minted by the checkout handler
    successes,       \* number of checkouts that answered 201
    result,          \* what the last query (statistics, order list) returned
    reqs             \* the checkout requests being served, by worker thread

vars == <<now, heap, carts, orders, discount_codes, order_counter, response,
          checkoutMinted, successes, result, reqs>>

(* ------------------------------ bounds -------------------------------- *)
MaxUnits == 3      \* Spec: units ever put into carts (sum of the quantities)
MaxOrders == 3     \* Spec: orders ever saved
MaxCodes == 2      \* Spec, SpecCount: discount codes ever generated
SvcMaxUnits == 2   \* SpecSvc: units ever put into carts
SvcMaxOrders == 1  \* SpecSvc: orders ever saved
SvcMaxCodes == 1   \* SpecSvc: discount codes ever generated
CountMaxOrders == 6 \* SpecCount: orders ever saved, and units put into carts
AllMaxUnits == 2   \* SpecAll: units ever put into carts
AllMaxOrders == 1  \* SpecAll: orders ever saved
AllMaxCodes == 1   \* SpecAll: discount codes ever generated
OrdMaxUnits == 1   \* SpecOrder: units ever put into carts
OrdMaxOrders == 2  \* SpecOrder: orders ever saved
OrdMaxCodes == 2   \* SpecOrder: discount codes ever generated
ValMaxCodes == 2   \* SpecValid: discount codes ever stored
CartMaxUnits == 6  \* SpecCart: units ever put into carts
CartMaxQty == 3    \* SpecCart: largest quantity of one request
AdmMaxUnits == 3   \* SpecAdmin: units ever put into carts
AdmMaxOrders == 3  \* SpecAdmin: orders ever saved
AdmMaxCodes == 2   \* SpecAdmin: discount codes ever generated
InpMaxUnits == 2   \* SpecInput: units ever put into carts
InpMaxOrders == 1  \* SpecInput: orders ever saved
DrawMaxCodes == 2  \* SpecDraw: discount codes ever stored
RaceMaxUnits == 2  \* SpecRace: units ever put into carts
RaceMaxOrders == 3 \* SpecRace: orders ever saved
RaceMaxCodes == 2  \* SpecRace: discount codes ever generated
UsrMaxOrders == 3  \* SpecUsers: orders ever saved, units put into carts, codes
MergeMaxUnits == 5 \* SpecMerge: units ever put into carts
DiscMaxUnits == 3  \* SpecDiscount: units ever put into carts
DiscMaxOrders == 3 \* SpecDiscount: orders ever saved
DiscMaxCodes == 3  \* SpecDiscount: discount codes ever generated
TickDays == 30     \* granularity of the clock
MaxNow == 60       \* last clock value

(* ------------------------- program constants --------------------------- *)
DISCOUNT_ORDER_FREQUENCY == 3
DISCOUNT_PERCENTAGE == 10
EXPIRY_DAYS == 30
NoCode == 0        \* discount_code = None; also the code of an unknown string
None == -1         \* used_at = None, expires_at = None

Users == {"u1", "u2"}
ItemIds == {"a", "b"}
Quantities == {1}
\* the clock values; only their order against a code's expires_at is read,
\* so one value stands for every instant of its slot
Times == {t \in 0..MaxNow : t % TickDays = 0}
\* the strings a request may name as its code: every code that can ever be
\* stored, so a name beyond Len(discount_codes) is an unknown code
CodeNames == 1..(MaxCodes + 1)
\* the expiry dates a caller may give a code explicitly: the clock values and
\* one before them
ExplicitExpiries == Times \cup {t - TickDays : t \in Times}

\* the catalogue (item_id, price) of Spec: one product; in every catalogue
\* of pairs a product is named as its item_id
FlowCatalogue == {<<"a", 10>>}
\* the user and the catalogue of SpecSvc and SpecCount: a second product
\* that costs nothing
SvcUsers == {"u1"}
SvcCatalogue == {<<"a", 10>>, <<"b", 0>>}
\* the catalogue and the quantities of SpecCart
CartCatalogue == {<<"a", 10>>, <<"b", 20>>}
CartQuantities == 1..CartMaxQty
\* the user ids, prices and quantities of SpecInput: also blank user ids, a
\* negative price and quantities that are not positive
InputUserIds == {"u1", " u1", "", " ", " \t"}
InputCatalogue == {<<"a", 10>>, <<"a", -10>>, <<"b", 0>>}
InputQuantities == {-1, 0, 1, 2}
\* the requests (item_id, name, price, quantity) of SpecMerge: product a is
\* offered under two names and prices
MergeOffers == {<<"a", "apple", 10, 2>>, <<"a", "pear", 20, 1>>,
                <<"b", "bread", 20, 1>>}

Min(S) == CHOOSE x \in S : \A y \in S : x <= y

(* ------------------------------ models.py ------------------------------ *)

\* mutant: a quantity of 0 is let through
Item_post_init_m(price, quantity) == price >= 0 /\ quantity >= 0

\* Item.__post_init__: the two construction-time checks
Item_post_init(price, quantity) == price >= 0 /\ quantity > 0

\* mutant: no item is ever found
find_item_m(h, items, item_id) == 0

\* Cart.find_item: the first item of the cart with this item_id (its
\* reference), or 0 for None
find_item(h, items, item_id) ==
    LET idx == {i \in 1..Len(items) : h[items[i]].item_id = item_id}
    IN  IF idx = {} THEN 0 ELSE items[Min(idx)]

\* mutant: the item is always appended
add_item_m(h, items, item) ==
    [heap |-> Append(h, item), items |-> Append(items, Len(h) + 1)]

\* mutant: a merge takes over the price of the added item
add_item_repricing(h, items, item) ==
    LET existing_item == find_item(h, items, item.item_id)
    IN  IF existing_item # 0
        THEN [heap  |-> [h EXCEPT ![existing_item].quantity = @ + item.quantity,
                                  ![existing_item].price = item.price],
              items |-> items]
        ELSE [heap  |-> Append(h, item),
              items |-> Append(items, Len(h) + 1)]

\* Cart.add_item: merge into the existing Item object, or append the new one
add_item(h, items, item) ==
    LET existing_item == find_item(h, items, item.item_id)
    IN  IF existing_item # 0
        THEN [heap  |-> [h EXCEPT ![existing_item].quantity = @ + item.quantity],
              items |-> items]
        ELSE [heap  |-> Append(h, item),
              items |-> Append(items, Len(h) + 1)]

\* Cart.get_total
RECURSIVE get_total(_, _)
get_total(h, items) ==
    IF items = <<>> THEN 0
    ELSE h[Head(items)].price * h[Head(items)].quantity + get_total(h, Tail(items))

\* Cart.get_item_count
RECURSIVE get_item_count(_, _)
get_item_count(h, items) ==
    IF items = <<>> THEN 0
    ELSE h[Head(items)].quantity + get_item_count(h, Tail(items))

\* mutant: no default expiry is set
DiscountCode_post_init_m(dc) == dc

\* DiscountCode.__post_init__: the default expiry
DiscountCode_post_init(dc) ==
    IF dc.expires_at = None
    THEN [dc EXCEPT !.expires_at = dc.created_at + EXPIRY_DAYS]
    ELSE dc

\* DiscountCode(code, discount_percentage, expires_at = ...) constructed at t
DiscountCode_expiring(code, discount_percentage, t, expires_at) ==
    DiscountCode_post_init(
        [code |-> code, discount_percentage |-> discount_percentage,
         is_used |-> FALSE, created_at |-> t, used_at |-> None,
         expires_at |-> expires_at])

\* DiscountCode(code, discount_percentage) constructed at t
DiscountCode(code, discount_percentage, t) ==
    DiscountCode_expiring(code, discount_percentage, t, None)

\* mutant: the used flag is not looked at
is_valid_m(dc, t) ==
    IF t > dc.expires_at THEN FALSE ELSE TRUE

\* DiscountCode.is_valid, the clock reading t
is_valid(dc, t) ==
    IF dc.is_used THEN FALSE
    ELSE IF t > dc.expires_at THEN FALSE
    ELSE TRUE

\* mutant: only the time of use is recorded
use_m(dc, t) == [dc EXCEPT !.used_at = t]

\* DiscountCode.use
use(dc, t) == [dc EXCEPT !.is_used = TRUE, !.used_at = t]

\* Order.__post_init__
Order_post_init(o) ==
    IF o.total_amount = 0
    THEN [o EXCEPT !.total_amount = o.subtotal - o.discount_amount]
    ELSE o

\* mutant: the user gets a new empty cart every time
store_get_cart_m(cs, user_id) ==
    [u \in DOMAIN cs \cup {user_id} |-> IF u = user_id THEN <<>> ELSE cs[u]]

\* InMemoryStore.get_cart: get or create
store_get_cart(cs, user_id) ==
    IF user_id \notin DOMAIN cs THEN cs @@ (user_id :> <<>>) ELSE cs

\* InMemoryStore.save_cart
save_cart(cs, user_id, items) ==
    [u \in DOMAIN cs \cup {user_id} |-> IF u = user_id THEN items ELSE cs[u]]

\* mutant: the store keeps only the order saved last
save_order_m(os, counter, order) ==
    [orders |-> <<order>>, order_counter |-> counter + 1]

\* mutant: the order is stored without being counted
save_order_uncounted(os, counter, order) ==
    [orders |-> Append(os, order), order_counter |-> counter]

\* InMemoryStore.save_order
save_order(os, counter, order) ==
    [orders |-> Append(os, order), order_counter |-> counter + 1]

\* InMemoryStore.get_discount_code: the stored code, or NoCode for None
get_discount_code(dcs, code) ==
    IF code \in DOMAIN dcs THEN code ELSE NoCode

\* mutant: the store keeps only the code saved last
save_discount_code_m(dcs, dc) == <<dc>>

\* InMemoryStore.save_discount_code
save_discount_code(dcs, dc) ==
    IF dc.code \in DOMAIN dcs THEN [dcs EXCEPT ![dc.code] = dc]
    ELSE Append(dcs, dc)

\* mutant: every code that is not used counts, expired or not
get_unused_discount_codes_m(dcs, t) ==
    {c \in DOMAIN dcs : ~dcs[c].is_used}

\* InMemoryStore.get_unused_discount_codes
get_unused_discount_codes(dcs, t) ==
    {c \in DOMAIN dcs : is_valid(dcs[c], t)}

\* InMemoryStore.get_total_items_purchased: the quantities the items of the
\* orders have now
RECURSIVE get_total_items_purchased(_, _)
get_total_items_purchased(h, os) ==
    IF os = <<>> THEN 0
    ELSE get_item_count(h, Head(os).items) + get_total_items_purchased(h, Tail(os))

\* mutant: the subtotals are summed
RECURSIVE get_total_purchase_amount_m(_)
get_total_purchase_amount_m(os) ==
    IF os = <<>> THEN 0
    ELSE Head(os).subtotal + get_total_purchase_amount_m(Tail(os))

\* InMemoryStore.get_total_purchase_amount
RECURSIVE get_total_purchase_amount(_)
get_total_purchase_amount(os) ==
    IF os = <<>> THEN 0
    ELSE Head(os).total_amount + get_total_purchase_amount(Tail(os))

\* InMemoryStore.get_total_discount_amount
RECURSIVE get_total_discount_amount(_)
get_total_discount_amount(os) ==
    IF os = <<>> THEN 0
    ELSE Head(os).discount_amount + get_total_discount_amount(Tail(os))

(* ----------------------------- services.py ----------------------------- *)

\* the whitespace characters a user id is tried with (str.strip removes
\* these and the other whitespace of Unicode)
Whitespace == {" ", "\t", "\n"}

RECURSIVE lstrip(_)
lstrip(str) ==
    IF str # "" /\ Head(str) \in Whitespace THEN lstrip(Tail(str)) ELSE str

RECURSIVE rstrip(_)
rstrip(str) ==
    IF str # "" /\ SubSeq(str, Len(str), Len(str)) \in Whitespace
    THEN rstrip(SubSeq(str, 1, Len(str) - 1))
    ELSE str

\* mutant: nothing is stripped
strip_m(str) == str

\* str.strip()
strip(str) == rstrip(lstrip(str))

\* mutant: the percentage is not divided by 100
discount_amount_of_m(subtotal, discount_percentage) ==
    subtotal * discount_percentage

\* OrderService.create_order, line 131: the discount of a valid code
discount_amount_of(subtotal, discount_percentage) ==
    (subtotal * discount_percentage) \div 100

\* mutant: the discount is not taken off
total_amount_of_m(subtotal, discount_amount) == subtotal

\* OrderService.create_order, line 141: the total handed to Order(...)
total_amount_of(subtotal, discount_amount) == subtotal - discount_amount

\* OrderService.create_order, line 137: cart.items.copy() is a new list of
\* the same Item objects
items_copy(items) == items

\* mutant: neither the cart nor the code is checked
create_order_m(h, user_id, items, discount_code, dcs, t, order_id) ==
    [err   |-> "ok",
     order |-> [order_id        |-> order_id,
                user_id         |-> user_id,
                items           |-> items,
                subtotal        |-> get_total(h, items),
                discount_code   |-> discount_code,
                discount_amount |-> 0,
                total_amount    |-> get_total(h, items)]]

\* OrderService.create_order up to the construction of the order
create_order(h, user_id, items, discount_code, dcs, t, order_id) ==
    IF items = <<>> THEN [err |-> "Cannot create order from empty cart"]
    ELSE
      LET subtotal == get_total(h, items)
          discount == get_discount_code(dcs, discount_code)
      IN  IF discount_code # NoCode /\ (discount = NoCode \/ ~is_valid(dcs[discount], t))
          THEN [err |-> "Invalid or expired discount code"]
          ELSE
            LET discount_amount ==
                    IF discount_code # NoCode
                    THEN discount_amount_of(subtotal, dcs[discount].discount_percentage)
                    ELSE 0
            IN  [err   |-> "ok",
                 order |-> Order_post_init(
                             [order_id        |-> order_id,
                              user_id         |-> user_id,
                              items           |-> items_copy(items),
                              subtotal        |-> subtotal,
                              discount_code   |-> discount_code,
                              discount_amount |-> discount_amount,
                              total_amount    |-> total_amount_of(subtotal, discount_amount)])]

\* DiscountService.is_discount_code_valid
is_discount_code_valid(dcs, code, t) ==
    LET discount == get_discount_code(dcs, code)
    IN  discount # NoCode /\ is_valid(dcs[discount], t)

\* mutant: a stored code is marked used without asking is_valid
use_discount_code_m(dcs, code, t) ==
    LET discount == get_discount_code(dcs, code)
    IN  IF discount = NoCode THEN [err |-> "Discount code not found", codes |-> dcs]
        ELSE [err |-> "ok", codes |-> save_discount_code(dcs, use(dcs[discount], t))]

\* DiscountService.use_discount_code
use_discount_code(dcs, code, t) ==
    LET discount == get_discount_code(dcs, code)
    IN  IF discount = NoCode THEN [err |-> "Discount code not found", codes |-> dcs]
        ELSE IF ~is_valid(dcs[discount], t) THEN [err |-> "Discount code is expired or already used", codes |-> dcs]
        ELSE [err |-> "ok", codes |-> save_discount_code(dcs, use(dcs[discount], t))]

\* mutant: stored codes are not looked at
has_unused_discount_code_m(dcs, t) == FALSE

\* mutant: an expired code still counts as unused
has_unused_discount_code_unexpiring(dcs, t) ==
    \E c \in DOMAIN dcs : ~dcs[c].is_used

\* DiscountService.has_unused_discount_code
has_unused_discount_code(dcs, t) ==
    Cardinality(get_unused_discount_codes(dcs, t)) > 0

\* the identifiers uuid4 may yield for a new code: one no stored code has
new_code_names(dcs) == {Len(dcs) + 1}

\* the identifiers uuid4().hex[:8] can yield, as far as the store tells them
\* apart: the one of any stored code, or one no stored code has
drawn_code_names(dcs) == 1..(Len(dcs) + 1)

\* mutant: the new code is added to the codes whatever identifier it has
service_generate_discount_code_m(dcs, code, t) ==
    Append(dcs, DiscountCode(code, DISCOUNT_PERCENTAGE, t))

\* DiscountService.generate_discount_code, the identifier drawn being code
service_generate_discount_code(dcs, code, t) ==
    save_discount_code(dcs, DiscountCode(code, DISCOUNT_PERCENTAGE, t))

\* round(x, 2) for the amount x = num / den tenths of a currency unit, as a
\* count of hundredths: the nearest one.  For a quotient halfway between
\* two hundredths the float that stands for it lies above or below the
\* half, which the model does not tell: it goes up when up is TRUE
round_2(num, den, up) ==
    LET q == (10 * num) \div den
        r == (10 * num) % den
    IN  IF 2 * r < den THEN q
        ELSE IF 2 * r > den THEN q + 1
        ELSE IF up THEN q + 1 ELSE q

\* AdminService.get_store_statistics: the counts and the amounts of the
\* dictionary it returns (the amounts in hundredths, as rounded), without the
\* list of the codes
get_store_statistics(h, os, dcs, t, up) ==
    LET total_orders == Len(os)
        total_purchase_amount == get_total_purchase_amount(os)
        total_discount_amount == get_total_discount_amount(os)
    IN  [total_orders             |-> total_orders,
         total_items_purchased    |-> get_total_items_purchased(h, os),
         total_purchase_amount    |-> round_2(total_purchase_amount, 1, up),
         average_order_value      |->
             IF total_orders > 0
             THEN round_2(total_purchase_amount, total_orders, up)
             ELSE round_2(0, 1, up),
         total_discount_codes     |-> Len(dcs),
         used_discount_codes      |-> Cardinality({c \in DOMAIN dcs : dcs[c].is_used}),
         available_discount_codes |-> Cardinality(get_unused_discount_codes(dcs, t)),
         total_discount_amount    |-> round_2(total_discount_amount, 1, up),
         gross_revenue            |->
             round_2(total_purchase_amount + total_discount_amount, 1, up),
         net_revenue              |-> round_2(total_purchase_amount, 1, up),
         total_savings_given      |-> round_2(total_discount_amount, 1, up)]

\* mutant: the orders of every user are returned
get_user_orders_m(os, user_id) == os

\* OrderService.get_user_orders
get_user_orders(os, user_id) ==
    SelectSeq(os, LAMBDA order : order.user_id = user_id)

(* ------------------------------- state --------------------------------- *)

\* the messages of main_app.py and of the ValueErrors of services.py
MsgItemAdded == "Item added to cart successfully"
MsgCart == "cart"
MsgCartEmpty == "Cart is empty"
MsgInvalidCode == "Invalid or expired discount code"
MsgCodeUnusable == "Discount code is expired or already used"
MsgCodeNotFound == "Discount code not found"
MsgOrderPlaced == "Order placed successfully"
MsgFrequency == "Discount code can only be generated every 3 orders"
MsgUnusedExists == "There is already an unused discount code available"
MsgCodeGenerated == "Discount code generated successfully"
MsgEmptyOrder == "Cannot create order from empty cart"
MsgItemNotFound == "Item not found in cart"
\* calls that return without a message are named by their log line
MsgCleared == "Cleared cart"
MsgRemoved == "Removed item"
MsgCreated == "Created order"
MsgGenerated == "Generated new discount code"
MsgUsed == "Marked discount code as used"
\* calls that neither answer nor log are named by what they return or do
MsgValid == "True"
MsgNotValid == "False"
MsgSaved == "save_discount_code"
MsgStats == "Generated store statistics"
MsgUserIdEmpty == "User ID cannot be empty"
MsgPriceNegative == "Price cannot be negative"
MsgQuantityNotPositive == "Quantity must be positive"
MsgUserOrders == "get_user_orders"

\* the worker threads that serve checkout requests, and a thread serving none
Workers == {1, 2}
NoRequest ==
    [pc |-> "idle", user_id |-> "", discount_code |-> NoCode, order |-> 0,
     total_orders |-> 0]

Init ==
    /\ now = 0
    /\ heap = <<>>
    /\ carts = <<>>
    /\ orders = <<>>
    /\ discount_codes = <<>>
    /\ order_counter = 0
    /\ response = ""
    /\ checkoutMinted = 0
    /\ successes = 0
    /\ result = <<>>
    /\ reqs = [w \in Workers |-> NoRequest]

\* the clock advances
Tick ==
    /\ now + TickDays <= MaxNow
    /\ now' = now + TickDays
    /\ UNCHANGED <<heap, carts, orders, discount_codes, order_counter, response,
                   checkoutMinted, successes, result, reqs>>

(* ------------------------- handlers: main_app.py ----------------------- *)

\* Item(item_id, name, price, quantity) followed by
\* CartService.add_item_to_cart(user_id, item), as POST /cart/<user_id>/items
\* does (its validator refuses with 400 the prices and quantities that
\* Item.__post_init__ refuses)
add_item_to_cart(user_id, item_id, name, price, quantity) ==
    LET carts1 == store_get_cart(carts, user_id)
        r == add_item(heap, carts1[user_id],
                      [item_id |-> item_id, name |-> name, price |-> price,
                       quantity |-> quantity])
    IN  IF ~Item_post_init(price, quantity) THEN
            \* models.py, lines 22-25
            /\ response' = IF price < 0 THEN MsgPriceNegative
                           ELSE MsgQuantityNotPositive
            /\ UNCHANGED <<now, heap, carts, orders, discount_codes,
                           order_counter, checkoutMinted, successes, result, reqs>>
        ELSE IF strip(user_id) = "" THEN
            \* services.py, lines 36-37
            /\ response' = MsgUserIdEmpty
            /\ UNCHANGED <<now, heap, carts, orders, discount_codes,
                           order_counter, checkoutMinted, successes, result, reqs>>
        ELSE
            /\ heap' = r.heap
            /\ carts' = save_cart(carts1, user_id, r.items)
            /\ response' = MsgItemAdded
            /\ UNCHANGED <<now, orders, discount_codes, order_counter,
                           checkoutMinted, successes, result, reqs>>

\* CartService.get_cart, as called by GET /cart/<user_id>
get_cart(user_id) ==
    /\ carts' = store_get_cart(carts, user_id)
    /\ response' = MsgCart
    /\ UNCHANGED <<now, heap, orders, discount_codes, order_counter,
                   checkoutMinted, successes, result, reqs>>

\* mutant: the handler does not look at the cart
cart_is_empty_m(items) == FALSE

\* checkout, line 117: not cart.items
cart_is_empty(items) == items = <<>>

\* mutant: the cart is deleted from the store
clear_cart_m(cs, user_id) == [u \in DOMAIN cs \ {user_id} |-> cs[u]]

\* CartService.clear_cart
clear_cart(cs, user_id) == save_cart(store_get_cart(cs, user_id), user_id, <<>>)

\* mutant: no code is minted while a valid unused one is stored
mint_after_order_m(dcs, total_orders, code, t) ==
    IF total_orders % DISCOUNT_ORDER_FREQUENCY = 0
       /\ ~has_unused_discount_code(dcs, t)
    THEN service_generate_discount_code(dcs, code, t)
    ELSE dcs

\* checkout, lines 135-139: the codes after the every-Nth-order step
mint_after_order(dcs, total_orders, code, t) ==
    IF total_orders % DISCOUNT_ORDER_FREQUENCY = 0
    THEN service_generate_discount_code(dcs, code, t)
    ELSE dcs

\* POST /cart/<user_id>/checkout.  The clock is read when the code is
\* validated (tv), again inside create_order (tc) and again inside
\* use_discount_code (tu); the remaining steps run at tu.
checkout(user_id, discount_code) ==
    \E tv \in Times, tc \in Times, tu \in Times :
      /\ now <= tv /\ tv <= tc /\ tc <= tu
      /\ now' = tu
      /\ LET carts1 == store_get_cart(carts, user_id)
             items == carts1[user_id]
             r == create_order(heap, user_id, items, discount_code,
                               discount_codes, tc, Len(orders) + 1)
         IN
         IF cart_is_empty(items) THEN
            \* lines 117-118
            /\ tu = now
            /\ carts' = carts1
            /\ response' = MsgCartEmpty
            /\ UNCHANGED <<heap, orders, discount_codes, order_counter,
                           checkoutMinted, successes, result, reqs>>
         ELSE IF discount_code # NoCode
                 /\ ~is_discount_code_valid(discount_codes, discount_code, tv) THEN
            \* lines 121-123
            /\ tu = tv
            /\ carts' = carts1
            /\ response' = MsgInvalidCode
            /\ UNCHANGED <<heap, orders, discount_codes, order_counter,
                           checkoutMinted, successes, result, reqs>>
         ELSE IF r.err # "ok" THEN
            \* line 126 raises ValueError, answered 400 at lines 148-149
            /\ tu = tc
            /\ carts' = carts1
            /\ response' = r.err
            /\ UNCHANGED <<heap, orders, discount_codes, order_counter,
                           checkoutMinted, successes, result, reqs>>
         ELSE
            LET saved == save_order(orders, order_counter, r.order)
                used == use_discount_code(discount_codes, discount_code, tu)
            IN
            /\ discount_code = NoCode => tu = now
            /\ orders' = saved.orders
            /\ order_counter' = saved.order_counter
            /\ heap' = heap
            /\ IF discount_code # NoCode /\ used.err # "ok" THEN
                  \* line 130 raises ValueError, answered 400 at lines 148-149
                  /\ carts' = carts1
                  /\ discount_codes' = used.codes
                  /\ response' = used.err
                  /\ UNCHANGED <<checkoutMinted, successes, result, reqs>>
               ELSE
                  LET codes1 == IF discount_code # NoCode THEN used.codes
                                ELSE discount_codes
                  IN
                  \E code \in new_code_names(codes1) :
                    /\ discount_codes' =
                          mint_after_order(codes1, Len(saved.orders), code, tu)
                    /\ carts' = clear_cart(carts1, user_id)
                    /\ checkoutMinted' =
                          IF discount_codes' # codes1 THEN checkoutMinted + 1
                          ELSE checkoutMinted
                    /\ successes' = successes + 1
                    /\ response' = MsgOrderPlaced
                    /\ UNCHANGED <<result, reqs>>

\* POST /cart/<user_id>/checkout served by the thread w, one step at a time,
\* so that the steps of two requests can interleave.  Each step reads the
\* clock as it stands.

\* the request of thread w moves on to pc, with the order it has created and
\* the count it has read; an answered request keeps only whether it
\* succeeded and the order it stored
Proceed(w, pc, order, total_orders) ==
    reqs' = [reqs EXCEPT ![w] =
               IF pc \in {"done", "failed"}
               THEN [NoRequest EXCEPT !.pc = pc, !.order = order]
               ELSE [@ EXCEPT !.pc = pc, !.order = order,
                              !.total_orders = total_orders]]

\* lines 105-118: the request arrives at the first thread that is free; the
\* cart is fetched and must hold items
checkout_begin(w, user_id, discount_code) ==
    /\ reqs[w].pc \in {"idle", "done", "failed"}
    /\ \A v \in Workers : v < w => reqs[v].pc \notin {"idle", "done", "failed"}
    /\ carts' = store_get_cart(carts, user_id)
    /\ IF cart_is_empty(carts'[user_id])
       THEN /\ response' = MsgCartEmpty
            /\ Proceed(w, "failed", 0, 0)
       ELSE /\ response' = response
            /\ reqs' = [reqs EXCEPT ![w] =
                          [NoRequest EXCEPT
                              !.pc = IF discount_code # NoCode THEN "validate"
                                     ELSE "create_order",
                              !.user_id = user_id,
                              !.discount_code = discount_code]]
    /\ UNCHANGED <<now, heap, orders, discount_codes, order_counter,
                   checkoutMinted, successes, result>>

\* lines 121-123: the code is validated
checkout_validate(w) ==
    /\ reqs[w].pc = "validate"
    /\ IF ~is_discount_code_valid(discount_codes, reqs[w].discount_code, now)
       THEN response' = MsgInvalidCode /\ Proceed(w, "failed", 0, 0)
       ELSE response' = response /\ Proceed(w, "create_order", 0, 0)
    /\ UNCHANGED <<now, heap, carts, orders, discount_codes, order_counter,
                   checkoutMinted, successes, result>>

\* line 126: the order is created and saved, or create_order raises
checkout_create_order(w) ==
    /\ reqs[w].pc = "create_order"
    /\ LET r == create_order(heap, reqs[w].user_id, carts[reqs[w].user_id],
                             reqs[w].discount_code, discount_codes, now,
                             Len(orders) + 1)
       IN  IF r.err # "ok"
           THEN /\ response' = r.err
                /\ Proceed(w, "failed", 0, 0)
                /\ UNCHANGED <<orders, order_counter>>
           ELSE LET saved == save_order(orders, order_counter, r.order)
                IN  /\ orders' = saved.orders
                    /\ order_counter' = saved.order_counter
                    /\ response' = response
                    /\ Proceed(w, IF reqs[w].discount_code # NoCode
                                   THEN "use_code" ELSE "clear_cart",
                               Len(saved.orders), 0)
    /\ UNCHANGED <<now, heap, carts, discount_codes, checkoutMinted, successes,
                   result>>

\* lines 129-130: the code is marked used, or use_discount_code raises
checkout_use_code(w) ==
    /\ reqs[w].pc = "use_code"
    /\ LET used == use_discount_code(discount_codes, reqs[w].discount_code, now)
       IN  /\ discount_codes' = used.codes
           /\ IF used.err # "ok"
              THEN response' = used.err /\ Proceed(w, "failed", reqs[w].order, 0)
              ELSE response' = response
                   /\ Proceed(w, "clear_cart", reqs[w].order, 0)
    /\ UNCHANGED <<now, heap, carts, orders, order_counter, checkoutMinted,
                   successes, result>>

\* line 133: the cart is cleared
checkout_clear_cart(w) ==
    /\ reqs[w].pc = "clear_cart"
    /\ carts' = clear_cart(carts, reqs[w].user_id)
    /\ Proceed(w, "count", reqs[w].order, 0)
    /\ UNCHANGED <<now, heap, orders, discount_codes, order_counter, response,
                   checkoutMinted, successes, result>>

\* line 136: the stored orders are counted
checkout_count(w) ==
    /\ reqs[w].pc = "count"
    /\ Proceed(w, "mint", reqs[w].order, Len(orders))
    /\ UNCHANGED <<now, heap, carts, orders, discount_codes, order_counter,
                   response, checkoutMinted, successes, result>>

\* lines 137-146: a code is minted for a count that is a multiple of N, and
\* the request is answered 201
checkout_mint(w) ==
    /\ reqs[w].pc = "mint"
    /\ \E code \in new_code_names(discount_codes) :
          discount_codes' =
              mint_after_order(discount_codes, reqs[w].total_orders, code, now)
    /\ checkoutMinted' = IF discount_codes' # discount_codes
                         THEN checkoutMinted + 1 ELSE checkoutMinted
    /\ successes' = successes + 1
    /\ response' = MsgOrderPlaced
    /\ Proceed(w, "done", reqs[w].order, 0)
    /\ UNCHANGED <<now, heap, carts, orders, order_counter, result>>

\* POST /admin/discount-codes
generate_discount_code ==
    IF Len(orders) % DISCOUNT_ORDER_FREQUENCY # 0 THEN
        \* lines 163-166
        /\ response' = MsgFrequency
        /\ UNCHANGED <<now, heap, carts, orders, discount_codes, order_counter,
                       checkoutMinted, successes, result, reqs>>
    ELSE IF has_unused_discount_code(discount_codes, now) THEN
        \* lines 169-172
        /\ response' = MsgUnusedExists
        /\ UNCHANGED <<now, heap, carts, orders, discount_codes, order_counter,
                       checkoutMinted, successes, result, reqs>>
    ELSE
        \E code \in new_code_names(discount_codes) :
          /\ discount_codes' = service_generate_discount_code(discount_codes, code, now)
          /\ response' = MsgCodeGenerated
          /\ UNCHANGED <<now, heap, carts, orders, order_counter,
                         checkoutMinted, successes, result, reqs>>

(* ---------------- direct calls of the services: services.py ------------ *)

\* mutant: the last element is dropped
list_remove_m(h, items, ref) == SubSeq(items, 1, Len(items) - 1)

\* list.remove(item): drop the first element equal to the item (dataclass
\* equality compares the fields)
list_remove(h, items, ref) ==
    LET i == Min({k \in 1..Len(items) : h[items[k]] = h[ref]})
    IN  SubSeq(items, 1, i - 1) \o SubSeq(items, i + 1, Len(items))

\* CartService.clear_cart
svc_clear_cart(user_id) ==
    /\ carts' = clear_cart(carts, user_id)
    /\ response' = MsgCleared
    /\ UNCHANGED <<now, heap, orders, discount_codes, order_counter,
                   checkoutMinted, successes, result, reqs>>

\* CartService.remove_item_from_cart
svc_remove_item_from_cart(user_id, item_id) ==
    LET carts1 == store_get_cart(carts, user_id)
        item == find_item(heap, carts1[user_id], item_id)
    IN  /\ IF item = 0
           THEN /\ carts' = carts1
                /\ response' = MsgItemNotFound
           ELSE /\ carts' = save_cart(carts1, user_id,
                                      list_remove(heap, carts1[user_id], item))
                /\ response' = MsgRemoved
        /\ UNCHANGED <<now, heap, orders, discount_codes, order_counter,
                       checkoutMinted, successes, result, reqs>>

\* mutant: create_order marks the code it applied as used
svc_create_order_m(user_id, discount_code) ==
    /\ user_id \in DOMAIN carts
    /\ LET r == create_order(heap, user_id, carts[user_id], discount_code,
                             discount_codes, now, Len(orders) + 1)
       IN  IF r.err # "ok"
           THEN /\ response' = r.err
                /\ UNCHANGED <<orders, order_counter, discount_codes>>
           ELSE LET saved == save_order(orders, order_counter, r.order)
                IN  /\ orders' = saved.orders
                    /\ order_counter' = saved.order_counter
                    /\ discount_codes' =
                          use_discount_code(discount_codes, discount_code, now).codes
                    /\ response' = MsgCreated
    /\ UNCHANGED <<now, heap, carts, checkoutMinted, successes, result, reqs>>

\* OrderService.create_order(cart, discount_code), cart being the stored
\* cart of user_id
svc_create_order(user_id, discount_code) ==
    /\ user_id \in DOMAIN carts
    /\ LET r == create_order(heap, user_id, carts[user_id], discount_code,
                             discount_codes, now, Len(orders) + 1)
       IN  IF r.err # "ok"
           THEN /\ response' = r.err
                /\ UNCHANGED <<orders, order_counter>>
           ELSE LET saved == save_order(orders, order_counter, r.order)
                IN  /\ orders' = saved.orders
                    /\ order_counter' = saved.order_counter
                    /\ response' = MsgCreated
    /\ UNCHANGED <<now, heap, carts, discount_codes, checkoutMinted, successes, result, reqs>>

\* DiscountService.generate_discount_code
svc_generate_discount_code ==
    \E code \in new_code_names(discount_codes) :
      /\ discount_codes' = service_generate_discount_code(discount_codes, code, now)
      /\ response' = MsgGenerated
      /\ UNCHANGED <<now, heap, carts, orders, order_counter,
                     checkoutMinted, successes, result, reqs>>

\* DiscountService.generate_discount_code when uuid4 yields the identifier
\* code, which a stored code may have
svc_generate_discount_code_drawing(code) ==
    /\ code \in drawn_code_names(discount_codes)
    /\ discount_codes' = service_generate_discount_code(discount_codes, code, now)
    /\ response' = MsgGenerated
    /\ UNCHANGED <<now, heap, carts, orders, order_counter,
                   checkoutMinted, successes, result, reqs>>

\* DiscountService.use_discount_code
svc_use_discount_code(code) ==
    LET used == use_discount_code(discount_codes, code, now)
    IN  /\ discount_codes' = used.codes
        /\ response' = IF used.err = "ok" THEN MsgUsed ELSE used.err
        /\ UNCHANGED <<now, heap, carts, orders, order_counter,
                       checkoutMinted, successes, result, reqs>>

\* DiscountService.is_discount_code_valid, called directly
svc_is_discount_code_valid(code) ==
    /\ response' = IF is_discount_code_valid(discount_codes, code, now)
                   THEN MsgValid ELSE MsgNotValid
    /\ UNCHANGED <<now, heap, carts, orders, discount_codes, order_counter,
                   checkoutMinted, successes, result, reqs>>

\* store.save_discount_code(DiscountCode(code, 10.0, expires_at = ...)): a
\* code constructed by the caller, with or without an expiry date of its own
save_explicit_code(expires_at) ==
    \E code \in new_code_names(discount_codes) :
      /\ discount_codes' =
            save_discount_code(discount_codes,
                DiscountCode_expiring(code, DISCOUNT_PERCENTAGE, now, expires_at))
      /\ response' = MsgSaved
      /\ UNCHANGED <<now, heap, carts, orders, order_counter,
                     checkoutMinted, successes, result, reqs>>

\* AdminService.get_store_statistics
svc_get_store_statistics ==
    /\ response' = MsgStats
    /\ \E up \in BOOLEAN :
          result' = get_store_statistics(heap, orders, discount_codes, now, up)
    /\ UNCHANGED <<now, heap, carts, orders, discount_codes, order_counter,
                   checkoutMinted, successes, reqs>>

\* OrderService.get_user_orders
svc_get_user_orders(user_id) ==
    /\ response' = MsgUserOrders
    /\ result' = get_user_orders(orders, user_id)
    /\ UNCHANGED <<now, heap, carts, orders, discount_codes, order_counter,
                   checkoutMinted, successes, reqs>>

(* --------------------------- specifications ---------------------------- *)

\* the units the first n Item objects hold
RECURSIVE Units(_, _)
Units(h, n) == IF n = 0 THEN 0 ELSE h[n].quantity + Units(h, n - 1)

\* the bound of a specification on the next state
Within(maxUnits, maxOrders, maxCodes) ==
    /\ Units(heap', Len(heap')) <= maxUnits
    /\ Len(orders') <= maxOrders
    /\ Len(discount_codes') <= maxCodes

\* Spec: the requests of the HTTP surface, served one at a time, over a
\* catalogue of one product
Next ==
    \/ Tick
    \/ \E u \in Users, ip \in FlowCatalogue, q \in Quantities :
          add_item_to_cart(u, ip[1], ip[1], ip[2], q) /\ Within(MaxUnits, MaxOrders, MaxCodes)
    \/ \E u \in Users : get_cart(u)
    \/ \E u \in Users, c \in {NoCode} \cup CodeNames :
          checkout(u, c) /\ Within(MaxUnits, MaxOrders, MaxCodes)
    \/ generate_discount_code /\ Within(MaxUnits, MaxOrders, MaxCodes)

Spec == Init /\ [][Next]_vars

\* SpecSvc: the services called directly, one call at a time
NextSvc ==
    \/ Tick
    \/ \E u \in SvcUsers, ip \in SvcCatalogue, q \in Quantities :
          add_item_to_cart(u, ip[1], ip[1], ip[2], q) /\ Within(SvcMaxUnits, SvcMaxOrders, SvcMaxCodes)
    \/ \E u \in SvcUsers : get_cart(u)
    \/ \E u \in SvcUsers : svc_clear_cart(u)
    \/ \E u \in SvcUsers, i \in ItemIds : svc_remove_item_from_cart(u, i)
    \/ \E u \in SvcUsers, c \in {NoCode} \cup CodeNames :
          svc_create_order(u, c) /\ Within(SvcMaxUnits, SvcMaxOrders, SvcMaxCodes)
    \/ svc_generate_discount_code /\ Within(SvcMaxUnits, SvcMaxOrders, SvcMaxCodes)
    \/ \E c \in CodeNames : svc_use_discount_code(c)

SpecSvc == Init /\ [][NextSvc]_vars

\* SpecCount: one user who only adds products and checks out
NextCount ==
    \/ Tick
    \/ \E u \in SvcUsers, ip \in SvcCatalogue, q \in Quantities :
          add_item_to_cart(u, ip[1], ip[1], ip[2], q) /\ Within(CountMaxOrders, CountMaxOrders, MaxCodes)
    \/ \E u \in SvcUsers, c \in {NoCode} \cup CodeNames :
          checkout(u, c) /\ Within(CountMaxOrders, CountMaxOrders, MaxCodes)

SpecCount == Init /\ [][NextCount]_vars

\* SpecAll: one user, one product, every operation of the services and both
\* order-flow handlers, one call at a time
NextAll ==
    \/ Tick
    \/ \E u \in SvcUsers, ip \in FlowCatalogue, q \in Quantities :
          add_item_to_cart(u, ip[1], ip[1], ip[2], q) /\ Within(AllMaxUnits, AllMaxOrders, AllMaxCodes)
    \/ \E u \in SvcUsers : get_cart(u)
    \/ \E u \in SvcUsers : svc_clear_cart(u)
    \/ \E u \in SvcUsers, i \in ItemIds : svc_remove_item_from_cart(u, i)
    \/ \E u \in SvcUsers, c \in {NoCode} \cup CodeNames :
          svc_create_order(u, c) /\ Within(AllMaxUnits, AllMaxOrders, AllMaxCodes)
    \/ svc_generate_discount_code /\ Within(AllMaxUnits, AllMaxOrders, AllMaxCodes)
    \/ \E c \in CodeNames : svc_use_discount_code(c)
    \/ \E u \in SvcUsers, c \in {NoCode} \cup CodeNames :
          checkout(u, c) /\ Within(AllMaxUnits, AllMaxOrders, AllMaxCodes)
    \/ generate_discount_code /\ Within(AllMaxUnits, AllMaxOrders, AllMaxCodes)

SpecAll == Init /\ [][NextAll]_vars

\* SpecOrder: one user, one product, OrderService and DiscountService called
\* directly, and both order-flow handlers
NextOrder ==
    \/ Tick
    \/ \E u \in SvcUsers, ip \in FlowCatalogue, q \in Quantities :
          add_item_to_cart(u, ip[1], ip[1], ip[2], q) /\ Within(OrdMaxUnits, OrdMaxOrders, OrdMaxCodes)
    \/ \E u \in SvcUsers : get_cart(u)
    \/ \E u \in SvcUsers, c \in {NoCode} \cup CodeNames :
          svc_create_order(u, c) /\ Within(OrdMaxUnits, OrdMaxOrders, OrdMaxCodes)
    \/ svc_generate_discount_code /\ Within(OrdMaxUnits, OrdMaxOrders, OrdMaxCodes)
    \/ \E c \in CodeNames : svc_use_discount_code(c)
    \/ \E u \in SvcUsers, c \in {NoCode} \cup CodeNames :
          checkout(u, c) /\ Within(OrdMaxUnits, OrdMaxOrders, OrdMaxCodes)
    \/ generate_discount_code /\ Within(OrdMaxUnits, OrdMaxOrders, OrdMaxCodes)

SpecOrder == Init /\ [][NextOrder]_vars

\* SpecValid: discount codes only: constructed with or without an expiry
\* date, generated, used and asked for their validity as the clock advances
NextValid ==
    \/ Tick
    \/ \E e \in {None} \cup ExplicitExpiries :
          save_explicit_code(e) /\ Within(0, 0, ValMaxCodes)
    \/ svc_generate_discount_code /\ Within(0, 0, ValMaxCodes)
    \/ \E c \in CodeNames : svc_use_discount_code(c)
    \/ \E c \in CodeNames : svc_is_discount_code_valid(c)

SpecValid == Init /\ [][NextValid]_vars

\* SpecCart: the cart of one user alone: items of two products added in
\* quantities of 1 to 3, removed and cleared
NextCart ==
    \/ \E u \in SvcUsers, ip \in CartCatalogue, q \in CartQuantities :
          add_item_to_cart(u, ip[1], ip[1], ip[2], q) /\ Within(CartMaxUnits, 0, 0)
    \/ \E u \in SvcUsers : get_cart(u)
    \/ \E u \in SvcUsers : svc_clear_cart(u)
    \/ \E u \in SvcUsers, i \in ItemIds : svc_remove_item_from_cart(u, i)

SpecCart == Init /\ [][NextCart]_vars

\* SpecAdmin: one user who adds and checks out, with and without codes, and
\* the statistics of the admin service, as the clock advances
NextAdmin ==
    \/ Tick
    \/ \E u \in SvcUsers, ip \in FlowCatalogue, q \in Quantities :
          add_item_to_cart(u, ip[1], ip[1], ip[2], q) /\ Within(AdmMaxUnits, AdmMaxOrders, AdmMaxCodes)
    \/ \E u \in SvcUsers, c \in {NoCode} \cup CodeNames :
          checkout(u, c) /\ Within(AdmMaxUnits, AdmMaxOrders, AdmMaxCodes)
    \/ generate_discount_code /\ Within(AdmMaxUnits, AdmMaxOrders, AdmMaxCodes)
    \/ svc_get_store_statistics

SpecAdmin == Init /\ [][NextAdmin]_vars

\* SpecUsers: two users who add and check out without codes, and the order
\* list of a user
NextUsers ==
    \/ \E u \in Users, ip \in FlowCatalogue, q \in Quantities :
          add_item_to_cart(u, ip[1], ip[1], ip[2], q) /\ Within(UsrMaxOrders, UsrMaxOrders, UsrMaxOrders)
    \/ \E u \in Users : checkout(u, NoCode) /\ Within(UsrMaxOrders, UsrMaxOrders, UsrMaxOrders)
    \/ \E u \in Users : svc_get_user_orders(u)

SpecUsers == Init /\ [][NextUsers]_vars

\* SpecInput: items and user ids of every kind given to add_item_to_cart,
\* and the cart of one user read, cleared, emptied line by line and ordered
NextInput ==
    \/ \E u \in InputUserIds, ip \in InputCatalogue, q \in InputQuantities :
          add_item_to_cart(u, ip[1], ip[1], ip[2], q) /\ Within(InpMaxUnits, InpMaxOrders, 0)
    \/ \E u \in SvcUsers : get_cart(u)
    \/ \E u \in SvcUsers : svc_clear_cart(u)
    \/ \E u \in SvcUsers, i \in ItemIds : svc_remove_item_from_cart(u, i)
    \/ \E u \in SvcUsers :
          svc_create_order(u, NoCode) /\ Within(InpMaxUnits, InpMaxOrders, 0)

SpecInput == Init /\ [][NextInput]_vars

\* SpecDraw: codes generated under any identifier the generator can draw,
\* and used, as the clock advances
NextDraw ==
    \/ Tick
    \/ \E code \in CodeNames :
          svc_generate_discount_code_drawing(code) /\ Within(0, 0, DrawMaxCodes)
    \/ \E c \in CodeNames : svc_use_discount_code(c)

SpecDraw == Init /\ [][NextDraw]_vars

\* SpecRace: two threads serving checkout requests step by step, while
\* items are added and the admin generates codes; the clock stands still
NextRace ==
    \/ \E u \in SvcUsers, ip \in FlowCatalogue, q \in Quantities :
          add_item_to_cart(u, ip[1], ip[1], ip[2], q) /\ Within(RaceMaxUnits, RaceMaxOrders, RaceMaxCodes)
    \/ generate_discount_code /\ Within(RaceMaxUnits, RaceMaxOrders, RaceMaxCodes)
    \/ \E w \in Workers, u \in SvcUsers, c \in {NoCode} \cup (1..RaceMaxCodes) :
          checkout_begin(w, u, c)
    \/ \E w \in Workers : checkout_validate(w)
    \/ \E w \in Workers :
          checkout_create_order(w) /\ Within(RaceMaxUnits, RaceMaxOrders, RaceMaxCodes)
    \/ \E w \in Workers : checkout_use_code(w)
    \/ \E w \in Workers : checkout_clear_cart(w)
    \/ \E w \in Workers : checkout_count(w)
    \/ \E w \in Workers :
          checkout_mint(w) /\ Within(RaceMaxUnits, RaceMaxOrders, RaceMaxCodes)

SpecRace == Init /\ [][NextRace]_vars

\* SpecMerge: the cart of one user: a product added under two names and
\* prices, next to a second product, and lines removed
NextMerge ==
    \/ \E u \in SvcUsers, o \in MergeOffers :
          add_item_to_cart(u, o[1], o[2], o[3], o[4]) /\ Within(MergeMaxUnits, 0, 0)
    \/ \E u \in SvcUsers : get_cart(u)
    \/ \E u \in SvcUsers, i \in ItemIds : svc_remove_item_from_cart(u, i)

SpecMerge == Init /\ [][NextMerge]_vars

\* SpecDiscount: one user who orders a priced and a free product, with and
\* without the codes that the discount service generates
NextDiscount ==
    \/ \E u \in SvcUsers, ip \in SvcCatalogue, q \in Quantities :
          add_item_to_cart(u, ip[1], ip[1], ip[2], q) /\ Within(DiscMaxUnits, DiscMaxOrders, DiscMaxCodes)
    \/ \E u \in SvcUsers, c \in {NoCode} \cup (1..DiscMaxCodes) :
          checkout(u, c) /\ Within(DiscMaxUnits, DiscMaxOrders, DiscMaxCodes)
    \/ svc_generate_discount_code /\ Within(DiscMaxUnits, DiscMaxOrders, DiscMaxCodes)

SpecDiscount == Init /\ [][NextDiscount]_vars

(* ============================== claims ================================= *)

\* the line total of a cart or an order, from the claims' words
RECURSIVE LineSum(_, _, _)
LineSum(h, items, n) ==
    IF n = 0 THEN 0
    ELSE h[items[n]].price * h[items[n]].quantity + LineSum(h, items, n - 1)

\* a code is valid at t: unused and not past its expiry
ValidAt(dc, t) == ~dc.is_used /\ t <= dc.expires_at

\* the item values (item_id, name, price, quantity) an item list shows
ItemValues(h, items) == [k \in 1..Len(items) |-> h[items[k]]]

\* C1: every stored order has total_amount = subtotal - discount_amount,
\* with and without a discount code and also for a subtotal of 0.
C1_TotalIsSubtotalMinusDiscount ==
    \A i \in 1..Len(orders) :
        orders[i].total_amount = orders[i].subtotal - orders[i].discount_amount

C1_Witness ==
    \E i, j \in 1..Len(orders) :
        /\ orders[i].discount_code # NoCode /\ orders[i].discount_amount > 0
        /\ orders[j].discount_code = NoCode /\ orders[j].subtotal = 0

C3_MintedIsFloorOfSuccesses ==
    checkoutMinted = successes \div DISCOUNT_ORDER_FREQUENCY

\* C4: a checkout of a non-empty cart with a 10 percent code that is valid
\* while the checkout runs stores an order with subtotal = the cart total,
\* discount_amount = subtotal * 10 / 100, total_amount = subtotal -
\* discount_amount and discount_code = the code, answers success, and leaves
\* the code used and no longer valid.
C4_DiscountedCheckout ==
    [][\A u \in Users, c \in CodeNames :
          ( /\ u \in DOMAIN carts /\ carts[u] # <<>>
            /\ c \in DOMAIN discount_codes
            /\ discount_codes[c].discount_percentage = 10
            /\ ValidAt(discount_codes[c], now')
            /\ checkout(u, c) )
          => /\ response' = MsgOrderPlaced
             /\ Len(orders') = Len(orders) + 1
             /\ LET o == orders'[Len(orders')]
                IN  /\ o.user_id = u
                    /\ o.subtotal = LineSum(heap, carts[u], Len(carts[u]))
                    /\ o.discount_amount * 100 = o.subtotal * 10
                    /\ o.total_amount = o.subtotal - o.discount_amount
                    /\ o.discount_code = c
             /\ discount_codes'[c].is_used
             /\ ~ValidAt(discount_codes'[c], now')
      ]_vars

C4_Witness ==
    /\ response = MsgOrderPlaced
    /\ Len(orders) > 0
    /\ LET o == orders[Len(orders)]
       IN  /\ o.discount_code # NoCode
           /\ o.subtotal = 10 /\ o.discount_amount = 1 /\ o.total_amount = 9
           /\ discount_codes[o.discount_code].is_used

\* C5 (as claimed): no operation changes the item values (item ids, prices,
\* quantities) of an order that is already stored.
C5_OrderItemsAreSnapshot ==
    [][\A i \in 1..Len(orders) :
          /\ i <= Len(orders')
          /\ ItemValues(heap', orders'[i].items) = ItemValues(heap, orders[i].items)
      ]_vars

\* C6 (as claimed): a checkout that reports a failure leaves the stored
\* orders and order_counter unchanged.
C6_NoPartialFailure ==
    [][\A u \in Users, c \in {NoCode} \cup CodeNames :
          (response' # MsgOrderPlaced /\ checkout(u, c))
          => (orders' = orders /\ order_counter' = order_counter)
      ]_vars

\* C7 (as claimed): a checkout for a user whose cart has no items fails with
\* the empty-cart error and leaves the carts map, the orders, order_counter
\* and the discount codes as they were, also for a user with no cart yet.
C7_EmptyCheckoutChangesNothing ==
    [][\A u \in Users, c \in {NoCode} \cup CodeNames :
          ((u \notin DOMAIN carts \/ carts[u] = <<>>) /\ checkout(u, c))
          => /\ response' \in {MsgCartEmpty, MsgEmptyOrder}
             /\ carts' = carts
             /\ orders' = orders /\ order_counter' = order_counter
             /\ discount_codes' = discount_codes
      ]_vars

\* C7 (amended): such a checkout fails with the empty-cart error and leaves
\* the orders, order_counter, the discount codes, the items and every cart
\* that existed as they were; the only change is that a user who had no
\* cart now has an empty one.
C7_EmptyCheckoutOnlyCreatesCart ==
    [][\A u \in Users, c \in {NoCode} \cup CodeNames :
          ((u \notin DOMAIN carts \/ carts[u] = <<>>) /\ checkout(u, c))
          => /\ response' \in {MsgCartEmpty, MsgEmptyOrder}
             /\ DOMAIN carts' = DOMAIN carts \cup {u}
             /\ carts'[u] = <<>>
             /\ \A v \in DOMAIN carts : carts'[v] = carts[v]
             /\ heap' = heap
             /\ orders' = orders /\ order_counter' = order_counter
             /\ discount_codes' = discount_codes
      ]_vars

C7_Witness ==
    /\ response = MsgCartEmpty
    /\ Len(orders) > 0
    /\ discount_codes # <<>>
    /\ \E u \in DOMAIN carts : carts[u] = <<>>
    /\ \E u \in DOMAIN carts : carts[u] # <<>>

\* C8: a checkout of a non-empty cart with a code that is unknown, expired
\* or already used fails with the invalid-discount error and changes
\* nothing: carts, items, orders, order_counter and discount codes stay.
C8_InvalidCodeChangesNothing ==
    [][\A u \in Users, c \in CodeNames :
          ( /\ u \in DOMAIN carts /\ carts[u] # <<>>
            /\ \/ c \notin DOMAIN discount_codes
               \/ discount_codes[c].is_used
               \/ now > discount_codes[c].expires_at
            /\ checkout(u, c) )
          => /\ response' = MsgInvalidCode
             /\ carts' = carts /\ heap' = heap
             /\ orders' = orders /\ order_counter' = order_counter
             /\ discount_codes' = discount_codes
             /\ checkoutMinted' = checkoutMinted
      ]_vars

C8_Witness ==
    /\ response = MsgInvalidCode
    /\ \E u \in DOMAIN carts : carts[u] # <<>>
    /\ \E c \in DOMAIN discount_codes : discount_codes[c].is_used
    /\ \E c \in DOMAIN discount_codes :
          ~discount_codes[c].is_used /\ now > discount_codes[c].expires_at

C10_NoCodeBeforeFirstOrder ==
    Len(orders) = 0 => (response # MsgCodeGenerated /\ discount_codes = <<>>)

C12_ValidIffUnusedAndUnexpired ==
    [][/\ \A c \in DOMAIN discount_codes' :
             is_valid(discount_codes'[c], now')
                 <=> (~discount_codes'[c].is_used
                      /\ now' <= discount_codes'[c].expires_at)
       /\ \A e \in {None} \cup ExplicitExpiries :
             save_explicit_code(e) =>
                 LET dc == discount_codes'[Len(discount_codes')]
                 IN  /\ dc.created_at = now
                     /\ dc.expires_at = IF e = None THEN now + 30 ELSE e
       /\ \A c \in CodeNames :
             svc_is_discount_code_valid(c) =>
                 (response' = MsgValid
                     <=> /\ c \in DOMAIN discount_codes
                         /\ ~discount_codes[c].is_used
                         /\ now <= discount_codes[c].expires_at)
      ]_vars

C12_Witness ==
    /\ response = MsgNotValid
    /\ \E c \in DOMAIN discount_codes :
          /\ ~discount_codes[c].is_used
          /\ discount_codes[c].expires_at < discount_codes[c].created_at
          /\ discount_codes[c].created_at = now
    /\ \E c \in DOMAIN discount_codes :
          /\ ~discount_codes[c].is_used
          /\ discount_codes[c].expires_at = discount_codes[c].created_at + 30
          /\ now <= discount_codes[c].expires_at

\* C13: use_discount_code fails with "not found" for a code that is not
\* stored and with the expired-or-used error for a stored code that is used
\* or past its expiry, changing no code in either case; otherwise it sets
\* is_used and used_at of that code and changes nothing else: no other
\* field of it, no other code, no order and no cart.
C13_UseCode ==
    [][\A c \in CodeNames :
          svc_use_discount_code(c) =>
            /\ orders' = orders /\ order_counter' = order_counter
            /\ carts' = carts /\ heap' = heap
            /\ IF c \notin DOMAIN discount_codes
               THEN response' = MsgCodeNotFound /\ discount_codes' = discount_codes
               ELSE IF discount_codes[c].is_used \/ now > discount_codes[c].expires_at
               THEN response' = MsgCodeUnusable /\ discount_codes' = discount_codes
               ELSE /\ response' = MsgUsed
                    /\ discount_codes' =
                          [discount_codes EXCEPT ![c].is_used = TRUE,
                                                 ![c].used_at = now']
      ]_vars

C13_Witness ==
    /\ response = MsgUsed
    /\ Len(discount_codes) = 2
    /\ \E c, d \in DOMAIN discount_codes :
          /\ discount_codes[c].is_used /\ discount_codes[c].used_at = now
          /\ ~discount_codes[d].is_used /\ discount_codes[d].used_at = None
    /\ orders # <<>>

\* C14: a create_order call that succeeds with a code leaves the codes, the
\* carts and the items as they were: the code is still unused and valid,
\* the cart still holds its items, and a second create_order of the same
\* cart with the same code would succeed again with the same discount.
C14_CreateOrderKeepsCodeAndCart ==
    [][\A u \in SvcUsers, c \in CodeNames :
          (svc_create_order(u, c) /\ response' = MsgCreated) =>
            /\ discount_codes' = discount_codes
            /\ carts' = carts /\ heap' = heap
            /\ carts'[u] # <<>>
            /\ ValidAt(discount_codes'[c], now')
            /\ Len(orders') = Len(orders) + 1
            /\ orders'[Len(orders')].discount_code = c
            /\ LET again == create_order(heap', u, carts'[u], c, discount_codes',
                                         now', Len(orders') + 1)
               IN  /\ again.err = "ok"
                   /\ again.order.discount_code = c
                   /\ again.order.discount_amount =
                          orders'[Len(orders')].discount_amount
      ]_vars

C14_Witness ==
    /\ response = MsgCreated
    /\ Len(orders) = 2
    /\ orders[1].discount_code # NoCode
    /\ orders[2].discount_code = orders[1].discount_code
    /\ orders[1].discount_amount > 0 /\ orders[2].discount_amount > 0
    /\ ValidAt(discount_codes[orders[1].discount_code], now)
    /\ carts["u1"] # <<>>

\* C15: create_order fails with the empty-cart error for a cart without
\* items and with the invalid-discount error for a code that is not stored,
\* used or past its expiry, storing no order and leaving order_counter in
\* both cases; otherwise it stores one order, and without a code that order
\* has discount_amount 0 and total_amount = subtotal = the cart total.
C15_CreateOrderErrors ==
    [][\A u \in SvcUsers, c \in {NoCode} \cup CodeNames :
          svc_create_order(u, c) =>
            IF carts[u] = <<>>
            THEN /\ response' = MsgEmptyOrder
                 /\ orders' = orders /\ order_counter' = order_counter
            ELSE IF c # NoCode /\ (c \notin DOMAIN discount_codes
                                   \/ ~ValidAt(discount_codes[c], now))
            THEN /\ response' = MsgInvalidCode
                 /\ orders' = orders /\ order_counter' = order_counter
            ELSE /\ response' = MsgCreated
                 /\ Len(orders') = Len(orders) + 1
                 /\ order_counter' = order_counter + 1
                 /\ \A i \in 1..Len(orders) : orders'[i] = orders[i]
                 /\ c = NoCode =>
                       LET o == orders'[Len(orders')]
                       IN  /\ o.discount_amount = 0
                           /\ o.total_amount = o.subtotal
                           /\ o.subtotal = LineSum(heap, carts[u], Len(carts[u]))
      ]_vars

C15_Witness ==
    /\ response = MsgEmptyOrder
    /\ carts["u1"] = <<>>
    /\ order_counter = 1
    /\ \E i \in 1..Len(orders) :
          /\ orders[i].discount_code = NoCode
          /\ orders[i].discount_amount = 0
          /\ orders[i].total_amount = 10 /\ orders[i].subtotal = 10
    /\ \E c \in DOMAIN discount_codes : ~ValidAt(discount_codes[c], now)

\* C16: no step removes a cart from the store, and right after a checkout
\* that answers success the cart of its user is stored and has no items.
C16_CartLifecycle ==
    [][/\ DOMAIN carts \subseteq DOMAIN carts'
       /\ \A u \in SvcUsers, c \in {NoCode} \cup CodeNames :
             (response' = MsgOrderPlaced /\ checkout(u, c)) =>
                 (u \in DOMAIN carts' /\ carts'[u] = <<>>)
      ]_vars

C16_Witness ==
    /\ response = MsgOrderPlaced
    /\ "u1" \in DOMAIN carts /\ carts["u1"] = <<>>
    /\ Len(orders) = 1 /\ orders[1].items # <<>>

\* C17: no step removes a stored order or changes its order_id, user_id,
\* subtotal, discount_code, discount_amount or total_amount, and the number
\* of stored orders never goes down.
C17_OrdersAppendOnly ==
    [][/\ Len(orders') >= Len(orders)
       /\ \A i \in 1..Len(orders) :
             /\ orders'[i].order_id = orders[i].order_id
             /\ orders'[i].user_id = orders[i].user_id
             /\ orders'[i].subtotal = orders[i].subtotal
             /\ orders'[i].discount_code = orders[i].discount_code
             /\ orders'[i].discount_amount = orders[i].discount_amount
             /\ orders'[i].total_amount = orders[i].total_amount
      ]_vars

\* an order that was stored before its code was used and before its user
\* added to the cart again and removed the line
C17_Witness ==
    /\ response = MsgRemoved
    /\ Len(orders) = 1
    /\ orders[1].order_id = 1 /\ orders[1].user_id = "u1"
    /\ orders[1].subtotal = 10 /\ orders[1].discount_amount = 1
    /\ orders[1].total_amount = 9
    /\ discount_codes[orders[1].discount_code].is_used
    /\ heap[orders[1].items[1]].quantity = 2
    /\ carts["u1"] = <<>>

\* the sum of the quantities of the first n lines
RECURSIVE QtySum(_, _, _)
QtySum(h, items, n) ==
    IF n = 0 THEN 0 ELSE h[items[n]].quantity + QtySum(h, items, n - 1)

\* C18: adding an item whose item_id the cart has adds the quantity to that
\* line and changes nothing else; adding one with a new item_id appends
\* one line with its item_id, price and quantity after the lines there
\* were; either way the cart total is the sum of price * quantity and the
\* item count the sum of the quantities of its lines.
C18_AddMergesOrAppends ==
    [][\A u \in SvcUsers, ip \in CartCatalogue, q \in CartQuantities :
          add_item_to_cart(u, ip[1], ip[1], ip[2], q) =>
            LET old == IF u \in DOMAIN carts
                       THEN ItemValues(heap, carts[u]) ELSE <<>>
                new == ItemValues(heap', carts'[u])
                idx == {k \in 1..Len(old) : old[k].item_id = ip[1]}
            IN  /\ IF idx # {}
                   THEN new = [k \in 1..Len(old) |->
                                  IF k \in idx
                                  THEN [old[k] EXCEPT !.quantity = @ + q]
                                  ELSE old[k]]
                   ELSE new = Append(old, [item_id |-> ip[1], name |-> ip[1],
                                           price |-> ip[2], quantity |-> q])
                /\ get_total(heap', carts'[u])
                       = LineSum(heap', carts'[u], Len(carts'[u]))
                /\ get_item_count(heap', carts'[u])
                       = QtySum(heap', carts'[u], Len(carts'[u]))
      ]_vars

\* item a added in quantity 2, item b added, item a added in quantity 3
C18_Witness ==
    /\ response = MsgItemAdded
    /\ ItemValues(heap, carts["u1"]) =
          << [item_id |-> "a", name |-> "a", price |-> 10, quantity |-> 5],
             [item_id |-> "b", name |-> "b", price |-> 20, quantity |-> 1] >>
    /\ get_total(heap, carts["u1"]) = 70
    /\ get_item_count(heap, carts["u1"]) = 6

\* C19: no cart holds two lines with the same item_id.
C19_UniqueItemIds ==
    \A u \in DOMAIN carts :
        \A i, j \in 1..Len(carts[u]) :
            i # j => heap[carts[u][i]].item_id # heap[carts[u][j]].item_id

\* a cart whose single line was added to twice, after a checkout
C19_Witness ==
    /\ response = MsgItemAdded
    /\ Len(carts["u1"]) = 1
    /\ heap[carts["u1"][1]].quantity = 2
    /\ orders # <<>>

\* C20: a checkout that answers success and brings the number of stored
\* orders to a multiple of N mints one more code, valid from then on,
\* whatever codes are stored, and leaves the codes it did not apply as they
\* were; so two valid unused codes can be stored at once.
C20_MintIgnoresExistingCodes ==
    [][\A u \in SvcUsers, c \in {NoCode} \cup CodeNames :
          ( /\ response' = MsgOrderPlaced
            /\ Len(orders') % DISCOUNT_ORDER_FREQUENCY = 0
            /\ checkout(u, c) )
          => /\ Len(discount_codes') = Len(discount_codes) + 1
             /\ ValidAt(discount_codes'[Len(discount_codes')], now')
             /\ \A d \in DOMAIN discount_codes :
                   d # c => discount_codes'[d] = discount_codes[d]
      ]_vars

\* after 2N checkouts that used no code
C20_Witness ==
    /\ response = MsgOrderPlaced
    /\ Len(orders) = 2 * DISCOUNT_ORDER_FREQUENCY
    /\ \A i \in 1..Len(orders) : orders[i].discount_code = NoCode
    /\ Cardinality({c \in DOMAIN discount_codes :
                        ValidAt(discount_codes[c], now)}) >= 2

\* the sums of a field over the first n orders, from the claims' words
RECURSIVE SumTotal(_, _)
SumTotal(os, n) ==
    IF n = 0 THEN 0 ELSE os[n].total_amount + SumTotal(os, n - 1)

RECURSIVE SumDiscount(_, _)
SumDiscount(os, n) ==
    IF n = 0 THEN 0 ELSE os[n].discount_amount + SumDiscount(os, n - 1)

RECURSIVE SumQuantities(_, _, _)
SumQuantities(h, os, n) ==
    IF n = 0 THEN 0
    ELSE QtySum(h, os[n].items, Len(os[n].items)) + SumQuantities(h, os, n - 1)

\* what get_store_statistics leaves alone: everything but its answer
StatsIsPure ==
    /\ orders' = orders /\ order_counter' = order_counter
    /\ carts' = carts /\ heap' = heap
    /\ discount_codes' = discount_codes /\ now' = now

\* what the claim says of the counts and of the sums (amounts in hundredths)
StatsSums ==
    /\ result'.total_orders = Len(orders)
    /\ result'.total_items_purchased = SumQuantities(heap, orders, Len(orders))
    /\ result'.total_purchase_amount = 10 * SumTotal(orders, Len(orders))
    /\ result'.net_revenue = result'.total_purchase_amount
    /\ result'.total_discount_amount = 10 * SumDiscount(orders, Len(orders))
    /\ result'.gross_revenue =
           result'.total_purchase_amount + result'.total_discount_amount

\* C21 (as claimed): get_store_statistics changes no stored state and reports
\* the number of orders, the sum of the quantities of their items, the sums
\* of total_amount (also as net revenue) and of discount_amount, their sum
\* as gross revenue, and as average order value the quotient
\* total_purchase_amount / total_orders, 0 without orders.
C21_StatisticsExactAverage ==
    [][svc_get_store_statistics =>
          /\ StatsIsPure
          /\ StatsSums
          /\ IF Len(orders) = 0 THEN result'.average_order_value = 0
             ELSE result'.average_order_value * Len(orders)
                      = result'.total_purchase_amount
      ]_vars

\* C21 (amended): the same, the average order value being the quotient
\* rounded to two decimal places: it is within half a hundredth of
\* total_purchase_amount / total_orders, and 0 without orders.
C21_StatisticsRoundedAverage ==
    [][svc_get_store_statistics =>
          /\ StatsIsPure
          /\ StatsSums
          /\ IF Len(orders) = 0 THEN result'.average_order_value = 0
             ELSE LET d == result'.average_order_value * Len(orders)
                               - result'.total_purchase_amount
                  IN  2 * d <= Len(orders) /\ -(2 * d) <= Len(orders)
      ]_vars

\* three orders of 1.0, 1.0 and 0.9: an average of 0.97 for 2.9 / 3
C21_Witness ==
    /\ response = MsgStats
    /\ result.total_orders = 3
    /\ result.total_items_purchased = 3
    /\ result.total_purchase_amount = 290
    /\ result.total_discount_amount = 10
    /\ result.gross_revenue = 300
    /\ result.average_order_value = 97

\* C27: get_user_orders returns the stored orders of the user and no other,
\* in the order they were stored in, the empty sequence for a user without
\* orders, and changes nothing.
C27_UserOrdersInStoreOrder ==
    [][\A u \in Users :
          svc_get_user_orders(u) =>
            LET idx == {i \in 1..Len(orders) : orders[i].user_id = u}
            IN  /\ Len(result') = Cardinality(idx)
                /\ \A i \in idx :
                      result'[Cardinality({j \in idx : j <= i})] = orders[i]
                /\ idx = {} => result' = <<>>
                /\ orders' = orders /\ carts' = carts /\ heap' = heap
                /\ discount_codes' = discount_codes
                /\ order_counter' = order_counter
      ]_vars

\* the first and the third of three orders, the second being another user's
C27_Witness ==
    /\ response = MsgUserOrders
    /\ Len(orders) = 3
    /\ orders[1].user_id = "u1" /\ orders[2].user_id = "u2"
    /\ orders[3].user_id = "u1"
    /\ result = <<orders[1], orders[3]>>

\* C22: order_counter equals the number of stored orders in every reachable
\* state (order ids being distinct), so it agrees with the len(store.orders)
\* that the every-Nth-order checks read.
C22_CounterIsOrderCount ==
    order_counter = Len(orders)

\* two orders, one saved by create_order called directly and one by a
\* checkout
C22_Witness ==
    /\ order_counter = 2
    /\ Len(orders) = 2
    /\ response = MsgOrderPlaced
    /\ successes = 1

\* a user id without any character that is not whitespace
IsBlank(str) ==
    \A k \in 1..Len(str) : SubSeq(str, k, k) \in {" ", "\t", "\n"}

\* C23: add_item_to_cart with a user id that is empty or only whitespace
\* fails, for an item that can be constructed with the empty-user-id error,
\* and leaves the store as it was: no cart is created and no cart, item,
\* order or code is changed.
C23_BlankUserIdRejected ==
    [][\A u \in InputUserIds, ip \in InputCatalogue, q \in InputQuantities :
          (IsBlank(u) /\ add_item_to_cart(u, ip[1], ip[1], ip[2], q)) =>
            /\ response' \in {MsgUserIdEmpty, MsgPriceNegative,
                               MsgQuantityNotPositive}
            /\ (ip[2] >= 0 /\ q > 0) => response' = MsgUserIdEmpty
            /\ carts' = carts /\ heap' = heap
            /\ u \notin DOMAIN carts'
            /\ orders' = orders /\ order_counter' = order_counter
            /\ discount_codes' = discount_codes
      ]_vars

\* a blank user id refused while the carts of "u1" and " u1" hold items
C23_Witness ==
    /\ response = MsgUserIdEmpty
    /\ DOMAIN carts = {"u1", " u1"}
    /\ carts["u1"] # <<>> /\ carts[" u1"] # <<>>

\* C25: every item a cart or an order holds has price >= 0 and
\* quantity > 0, whatever prices and quantities items were tried with.
C25_ItemsArePositive ==
    /\ \A u \in DOMAIN carts : \A k \in 1..Len(carts[u]) :
          heap[carts[u][k]].price >= 0 /\ heap[carts[u][k]].quantity > 0
    /\ \A i \in 1..Len(orders) : \A k \in 1..Len(orders[i].items) :
          /\ heap[orders[i].items[k]].price >= 0
          /\ heap[orders[i].items[k]].quantity > 0

\* a quantity of 0 refused, with a line of price 0 in an order and a
\* merged line in the cart
C25_Witness ==
    /\ response = MsgQuantityNotPositive
    /\ \E i \in 1..Len(orders) : \E k \in 1..Len(orders[i].items) :
          heap[orders[i].items[k]].price = 0
    /\ \E k \in 1..Len(carts["u1"]) : heap[carts["u1"][k]].quantity = 2

\* C24: remove_item_from_cart fails with the not-found error and leaves the
\* lines of the cart as they were when no line has the item_id; otherwise
\* it takes out that one line, whatever its quantity, and keeps the other
\* lines, their values and their order.
C24_RemoveTakesOneLine ==
    [][\A u \in SvcUsers, i \in ItemIds :
          svc_remove_item_from_cart(u, i) =>
            LET old == IF u \in DOMAIN carts
                       THEN ItemValues(heap, carts[u]) ELSE <<>>
                new == ItemValues(heap', carts'[u])
                idx == {k \in 1..Len(old) : old[k].item_id = i}
            IN  IF idx = {}
                THEN response' = MsgItemNotFound /\ new = old
                ELSE /\ response' = MsgRemoved
                     /\ Cardinality(idx) = 1
                     /\ Len(new) = Len(old) - 1
                     /\ \A k \in 1..Len(new) :
                           new[k] = IF k \in idx \/ \E j \in idx : j < k
                                    THEN old[k + 1] ELSE old[k]
      ]_vars

\* item a added in quantity 3, item b added, item a removed
C24_Witness ==
    /\ response = MsgRemoved
    /\ Len(heap) = 2
    /\ heap[1] = [item_id |-> "a", name |-> "a", price |-> 10, quantity |-> 3]
    /\ ItemValues(heap, carts["u1"]) =
          << [item_id |-> "b", name |-> "b", price |-> 20, quantity |-> 1] >>

\* the code a generate call stores: unused, 10 percent, expiring 30 days
\* after its creation, valid at its creation
IsNewCode(dc, code, t) ==
    /\ dc.code = code
    /\ ~dc.is_used /\ dc.used_at = None
    /\ dc.discount_percentage = 10
    /\ dc.created_at = t /\ dc.expires_at = t + 30
    /\ ValidAt(dc, t)

C26_MintOnObservedMultiple ==
    [][\A w \in Workers :
          checkout_mint(w) =>
            /\ reqs[w].order \in 1..Len(orders)
            /\ reqs[w].total_orders \in reqs[w].order..Len(orders)
            /\ IF reqs[w].total_orders % DISCOUNT_ORDER_FREQUENCY = 0
               THEN /\ Len(discount_codes') = Len(discount_codes) + 1
                    /\ checkoutMinted' = checkoutMinted + 1
               ELSE /\ discount_codes' = discount_codes
                    /\ checkoutMinted' = checkoutMinted
      ]_vars

\* three orders and two codes minted by checkouts that both read 3
C26_Witness ==
    /\ response = MsgOrderPlaced
    /\ Len(orders) = DISCOUNT_ORDER_FREQUENCY
    /\ checkoutMinted = 2
    /\ checkoutMinted > Len(orders) \div DISCOUNT_ORDER_FREQUENCY
    /\ Len(discount_codes) = 2
    /\ \A w \in Workers : reqs[w].pc = "done"

\* C28 (as claimed): however the steps of two checkouts that name the same
\* valid code interleave, at most one stored order carries that code, and
\* no checkout is answered with a failure after its order was stored.
C28_SharedCodeIsSafe ==
    /\ \A c \in CodeNames :
          Cardinality({i \in 1..Len(orders) : orders[i].discount_code = c}) <= 1
    /\ \A w \in Workers : ~(reqs[w].pc = "failed" /\ reqs[w].order > 0)

\* the item references of an item list
Refs(items) == {items[k] : k \in 1..Len(items)}

\* C29 (as claimed): when the cart of a checkout is cleared, the order the
\* checkout created has a subtotal that matches its items, and every item
\* the cart held, those added since the order was created included, is in
\* that order or still in the cart.
C29_AddDuringCheckoutIsKept ==
    [][\A w \in Workers :
          checkout_clear_cart(w) =>
            LET o == orders[reqs[w].order]
                u == reqs[w].user_id
            IN  /\ o.subtotal = LineSum(heap', o.items, Len(o.items))
                /\ Refs(carts[u]) \subseteq Refs(o.items) \cup Refs(carts'[u])
      ]_vars

\* C31: when an item is added whose item_id is already in the cart under
\* another name or price, the cart keeps its lines in their positions, every
\* line keeps its item_id, name and price, the line of that item_id gains the
\* added quantity and no other line changes.
C31_MergeChangesOnlyQuantity ==
    [][\A u \in SvcUsers, o \in MergeOffers :
          (/\ u \in DOMAIN carts
           /\ \E k \in 1..Len(carts[u]) :
                 /\ heap[carts[u][k]].item_id = o[1]
                 /\ (heap[carts[u][k]].name # o[2] \/ heap[carts[u][k]].price # o[3])
           /\ add_item_to_cart(u, o[1], o[2], o[3], o[4]))
          => LET old == ItemValues(heap, carts[u])
                 new == ItemValues(heap', carts'[u])
             IN  /\ Len(new) = Len(old)
                 /\ \A k \in 1..Len(old) :
                       /\ new[k].item_id = old[k].item_id
                       /\ new[k].name = old[k].name
                       /\ new[k].price = old[k].price
                       /\ new[k].quantity =
                             IF old[k].item_id = o[1] THEN old[k].quantity + o[4]
                             ELSE old[k].quantity
      ]_vars

\* C31 witness: the apple line of quantity 2 and price 10, first in the cart
\* before the bread, has absorbed the pear of quantity 1 and price 20 (no
\* other sum of offered quantities makes 3 with a single Item object).
C31_Witness ==
    /\ "u1" \in DOMAIN carts
    /\ response = MsgItemAdded
    /\ Len(heap) = 2
    /\ ItemValues(heap, carts["u1"]) =
          << [item_id |-> "a", name |-> "apple", price |-> 10, quantity |-> 3],
             [item_id |-> "b", name |-> "bread", price |-> 20, quantity |-> 1] >>

\* C32 (as claimed): every stored order's subtotal is the sum of price *
\* quantity over the items the order holds.
C32_SubtotalIsOwnLineSum ==
    \A i \in 1..Len(orders) :
       orders[i].subtotal = LineSum(heap, orders[i].items, Len(orders[i].items))

\* C33: for every stored order 0 <= discount_amount <= subtotal and
\* total_amount >= 0; discount_amount is 0 exactly when the order has no code
\* or its subtotal is 0, and otherwise it is a tenth of the subtotal.
C33_DiscountAmountRange ==
    \A i \in 1..Len(orders) :
       LET o == orders[i]
       IN  /\ 0 <= o.discount_amount
           /\ o.discount_amount <= o.subtotal
           /\ o.total_amount >= 0
           /\ (o.discount_amount = 0) <=> (o.discount_code = NoCode \/ o.subtotal = 0)
           /\ o.discount_amount # 0 => 10 * o.discount_amount = o.subtotal

\* C33 witness: the store holds an order without a code, an order with a code
\* on a free cart and an order with a code on a cart worth 10
C33_Witness ==
    /\ \E i \in 1..Len(orders) :
          /\ orders[i].discount_code = NoCode
          /\ orders[i].subtotal = 10 /\ orders[i].discount_amount = 0
    /\ \E i \in 1..Len(orders) :
          /\ orders[i].discount_code # NoCode
          /\ orders[i].subtotal = 0 /\ orders[i].discount_amount = 0
    /\ \E i \in 1..Len(orders) :
          /\ orders[i].discount_code # NoCode
          /\ orders[i].subtotal = 10 /\ orders[i].discount_amount = 1
          /\ orders[i].total_amount = 9

\* the cart of u holds no item (or u has no cart yet)
CartEmpty(cs, u) == u \notin DOMAIN cs \/ cs[u] = <<>>

\* a checkout that answers 201 leaves the user's cart empty, the cart stays
\* empty until an item is added for the user, and a checkout on an empty cart
\* fails with the empty-cart error and stores no order
RepeatedCheckoutFails ==
    \A u \in Users :
       /\ \A c \in {NoCode} \cup CodeNames :
             (response' = MsgOrderPlaced /\ checkout(u, c)) => CartEmpty(carts', u)
       /\ (/\ CartEmpty(carts, u)
           /\ ~ \E ip \in FlowCatalogue, q \in Quantities :
                   add_item_to_cart(u, ip[1], ip[1], ip[2], q))
          => CartEmpty(carts', u)
       /\ \A c \in {NoCode} \cup CodeNames :
             (CartEmpty(carts, u) /\ checkout(u, c))
             => (response' = MsgCartEmpty /\ orders' = orders)

\* a checkout that stores an order does not order cart contents that a
\* stored order already holds: the same Item objects, still adding up to
\* that order's subtotal
NoOrderTwice ==
    \A u \in Users, c \in {NoCode} \cup CodeNames :
       (checkout(u, c) /\ Len(orders') > Len(orders))
       => \A i \in 1..Len(orders) :
             ~ (/\ orders[i].user_id = u
                /\ orders[i].items = carts[u]
                /\ orders[i].subtotal = LineSum(heap, carts[u], Len(carts[u])))

\* the first half alone, which the handler keeps
RepeatAfterSuccessFails == [][RepeatedCheckoutFails]_vars

\* C34 (as claimed): a checkout cannot be repeated: after a successful
\* checkout a further checkout with no add-item in between fails with the
\* empty-cart error, and the same cart contents never produce two orders
\* through the checkout flow.
C34_CheckoutCannotRepeat == [][RepeatedCheckoutFails /\ NoOrderTwice]_vars

\* the stored codes that are valid at t
ValidCodes(dcs, t) == {c \in DOMAIN dcs : ValidAt(dcs[c], t)}

C36_CodeCountsAddUp ==
    [][svc_get_store_statistics =>
          LET lapsed == {c \in DOMAIN discount_codes :
                            /\ ~discount_codes[c].is_used
                            /\ now > discount_codes[c].expires_at}
              fresh == {c \in DOMAIN discount_codes :
                            /\ ~discount_codes[c].is_used
                            /\ now <= discount_codes[c].expires_at}
          IN  /\ result'.total_discount_codes = Len(discount_codes)
              /\ result'.used_discount_codes + result'.available_discount_codes
                    <= result'.total_discount_codes
              /\ (result'.used_discount_codes + result'.available_discount_codes
                     = result'.total_discount_codes) <=> (lapsed = {})
              /\ result'.available_discount_codes = Cardinality(fresh)
      ]_vars

\* C36 witness: statistics over a used code and an unused code that has
\* expired: two codes, one used, none available
C36_Witness ==
    /\ response = MsgStats
    /\ result.total_discount_codes = 2
    /\ result.used_discount_codes = 1
    /\ result.available_discount_codes = 0
    /\ \E c \in DOMAIN discount_codes :
          ~discount_codes[c].is_used /\ now > discount_codes[c].expires_at

C38_GetCartOnlyCreates ==
    [][\A u \in Users :
          get_cart(u) =>
             /\ response' = MsgCart
             /\ DOMAIN carts' = DOMAIN carts \cup {u}
             /\ carts'[u] = IF u \in DOMAIN carts THEN carts[u] ELSE <<>>
             /\ \A v \in DOMAIN carts : carts'[v] = carts[v]
             /\ heap' = heap
             /\ orders' = orders /\ order_counter' = order_counter
             /\ discount_codes' = discount_codes
      ]_vars

\* C38 witness: the cart of u2 has been read and is stored empty, next to the
\* cart of u1 with its item, an order and a code
C38_Witness ==
    /\ response = MsgCart
    /\ DOMAIN carts = {"u1", "u2"}
    /\ carts["u2"] = <<>>
    /\ Len(carts["u1"]) = 1
    /\ Len(orders) = 1
    /\ Len(discount_codes) = 1

====
